---- MODULE Spec2Model ----
(***************************************************************************)
(* Model of rising/transforms/compose.py: Compose and DropoutCompose.       *)
(* One composer object is alive at a time.  Its fields are the variables    *)
(* below; the remaining variables record the last operation performed on    *)
(* it (its inputs, its result or the exception it raised).                  *)
(* Python indices are kept 0-based inside transform_order and calls; a TLA+ *)
(* sequence s is read at Python index i as s[i + 1].                        *)
(***************************************************************************)
EXTENDS Integers, Sequences, FiniteSets, TLC

VARIABLES
    cls,              \* class of the composer: "Compose" or "DropoutCompose"
    transforms,       \* self._transforms: the list of (wrapped) transform units
    transform_order,  \* self.transform_order: list of 0-based indices
    shuffle,          \* self._shuffle
    transform_call,   \* self.transform_call: name of the call adapter
    n_samples,        \* n_samples bound to the registered sampler 'prob'
    dropout,          \* attribute self.dropout: [set, val]
    op,               \* last operation: "new" (the constructor), "set_transforms",
                      \* "set_shuffle" or "forward"
    err,              \* exception raised by the last operation, "none" if it returned
    arg,              \* inputs of the last operation
    calls,            \* indices of the transforms invoked by the last forward, in order
    out,              \* batch returned by the last forward
    rand,             \* vector read from self.prob by the last forward
    sampled,          \* whether the last forward consulted a random source
    visited,          \* the index list the loop of the last forward iterated over
    was_shuffled      \* whether a forward of this composer has shuffled its order

vars == <<cls, transforms, transform_order, shuffle, transform_call, n_samples,
          dropout, op, err, arg, calls, out, rand, sampled, visited, was_shuffled>>

----------------------------------------------------------------------------
(* Bounds of the model *)

\* most transform units handed to a constructor or to the transforms setter
MaxN == 3
\* batch values live in 0..MaxVal (arithmetic is taken modulo MaxVal + 1)
MaxVal == 7
\* batch values offered to forward are 1..MaxIn
MaxIn == 1

----------------------------------------------------------------------------
(* Values *)

\* names of the transform callables used as units
TIds == {"A", "B"}

\* dropout thresholds offered to the constructor, in tenths (0.0 and 1.0)
Thresholds == {0, 10}

\* values the sampler can draw, in tenths (0.0 and 0.5, both in [0, 1))
Draws == {0, 5}

\* a callable transform unit
Fn(id) == [tag |-> "fn", fn |-> id, items |-> <<>>]

\* a Sequence (list or tuple) of values
SeqV(items) == [tag |-> "seq", fn |-> "", items |-> items]

\* the lists of at most MaxN callable units
UnitLists == UNION {[1..k -> {Fn(a) : a \in TIds}] : k \in 0..MaxN}

\* a batch: a mapping {"x": v} (form "map"), a tuple (v,) (form "seq"),
\* or the empty mapping (form "map", no values)
Batch(form, vals) == [form |-> form, vals |-> vals]

NoData == [form |-> "none", vals |-> <<>>]

NoArg == [form |-> "", k |-> 0, dlen |-> 0, seq |-> FALSE, map |-> FALSE, x |-> 0]

NoDropout == [set |-> FALSE, val |-> <<>>]

\* list(range(n))
Identity(n) == [i \in 1..n |-> i - 1]

\* the bijections of 1..n onto itself
Perms(n) == Permutations(1..n)

\* the lists random.shuffle can leave in place of s
ShuffleOutcomes(s) == {[i \in 1..Len(s) |-> s[p[i]]] : p \in Perms(Len(s))}

Ok(data) == [err |-> "none", data |-> data]

Raise(e) == [err |-> e, data |-> NoData]

----------------------------------------------------------------------------
(* Transform units and call adapters *)

\* the transform callables: A adds 1 to every value, B doubles every value
ApplyFn(id, batch) ==
    Batch(batch.form,
          [i \in 1..Len(batch.vals) |->
              IF id = "A" THEN (batch.vals[i] + 1) % (MaxVal + 1)
                          ELSE (batch.vals[i] * 2) % (MaxVal + 1)])

\* _TransformWrapper.forward: self.trafo(*args, **kwargs)
TransformWrapperForward(trafo, batch) ==
    IF trafo.tag = "fn" THEN Ok(ApplyFn(trafo.fn, batch))
                        ELSE Raise("TypeError")

\* dict_call: transform(**batch)
dict_call(batch, transform) ==
    IF batch.form = "map" THEN TransformWrapperForward(transform, batch)
                          ELSE Raise("TypeError")

\* a caller-supplied adapter unpacking positionally: transform(*batch)
seq_call(batch, transform) ==
    IF batch.form = "seq" \/ batch.vals = <<>>
    THEN TransformWrapperForward(transform, batch)
    ELSE Raise("TypeError")

\* self.transform_call(data, transform)
TransformCall(data, transform) ==
    IF transform_call = "dict_call" THEN dict_call(data, transform)
                                    ELSE seq_call(data, transform)

----------------------------------------------------------------------------
(* Construction *)

\* transforms setter: the stored list, every unit wrapped where needed
TransformsSetterList(value) == value

\* variant of OrderOnSetTransforms: the range is taken over the list held
\* before the assignment
OrderOnSetTransforms_stale(ts, old) == Identity(Len(old))

\* transforms setter: self.transform_order = list(range(len(self.transforms))),
\* read after self._transforms has been replaced (old: the list held before)
OrderOnSetTransforms(ts, old) == Identity(Len(ts))

\* variant of OrderOnSetShuffle: the flag is stored and the order is left alone
OrderOnSetShuffle_keep(ts, cur) == cur

\* shuffle setter: self.transform_order = list(range(len(self.transforms)))
\* (cur: the order held before)
OrderOnSetShuffle(ts, cur) == Identity(Len(ts))

\* Compose.__init__(*args, shuffle=shuf, transform_call=tc)
ComposeInit(args, shuf, tc) ==
    IF Len(args) = 0
    THEN [err |-> "IndexError", transforms |-> <<>>, transform_order |-> <<>>,
          shuffle |-> FALSE, transform_call |-> "dict_call"]
    ELSE LET given == IF args[1].tag = "seq" THEN args[1].items ELSE args
             ts == TransformsSetterList(given)
         IN [err |-> "none",
             transforms |-> ts,
             transform_order |-> OrderOnSetShuffle(ts, OrderOnSetTransforms(ts, <<>>)),
             shuffle |-> shuf,
             transform_call |-> tc]

\* rising.utils.check_scalar(dropout)
check_scalar(drop) == drop.scalar

\* the local list DropoutCompose.__init__ computes from its dropout argument
DropoutLocal(drop, n) ==
    IF check_scalar(drop) THEN [i \in 1..n |-> drop.val[1]] ELSE drop.val

\* the attribute self.dropout once DropoutCompose.__init__ has returned:
\* the constructor checks the local list and stores nothing
DropoutAttr(local) == NoDropout

\* register_sampler('prob', random_sampler, n_samples=len(self.transforms))
RegisterSampler(n) == n

\* the positional arguments of a constructor call: the units one by one
\* (form "args") or a single list holding them (form "seq")
CtorArgs(form, units) == IF form = "args" THEN units ELSE <<SeqV(units)>>

\* the dropout arguments offered to DropoutCompose: a scalar, or a sequence
\* of 0..MaxN thresholds
DropoutArgs ==
    {[scalar |-> TRUE, val |-> <<d>>] : d \in Thresholds}
    \cup {[scalar |-> FALSE, val |-> v] :
            v \in UNION {[1..k -> Thresholds] : k \in 0..MaxN}}

\* no composer: the state left by a constructor that raised e
Failed(c, e, a) ==
    [cls |-> c, transforms |-> <<>>, transform_order |-> <<>>, shuffle |-> FALSE,
     transform_call |-> "dict_call", n_samples |-> 0, dropout |-> NoDropout,
     err |-> e, arg |-> a]

\* Compose(*args, ...) and DropoutCompose(*args, dropout=drop, ...)
Construct(c, form, units, shuf, tc, drop) ==
    LET args == CtorArgs(form, units)
        a == [NoArg EXCEPT !.form = form, !.k = Len(units),
                           !.dlen = IF c = "Compose" \/ drop.scalar
                                    THEN 0 - 1 ELSE Len(drop.val)]
        base == IF c = "Compose" THEN ComposeInit(args, shuf, tc)
                                 ELSE ComposeInit(<<SeqV(args)>>, shuf, tc)
        n == Len(base.transforms)
    IN IF base.err # "none" THEN Failed(c, base.err, a)
       ELSE IF c = "Compose"
       THEN [cls |-> c, transforms |-> base.transforms,
             transform_order |-> base.transform_order, shuffle |-> base.shuffle,
             transform_call |-> base.transform_call, n_samples |-> 0,
             dropout |-> NoDropout, err |-> "none", arg |-> a]
       ELSE IF Len(DropoutLocal(drop, n)) # n THEN Failed(c, "TypeError", a)
       ELSE [cls |-> c, transforms |-> base.transforms,
             transform_order |-> base.transform_order, shuffle |-> base.shuffle,
             transform_call |-> base.transform_call,
             n_samples |-> RegisterSampler(n),
             dropout |-> DropoutAttr(DropoutLocal(drop, n)),
             err |-> "none", arg |-> a]

\* the constructor calls of the model: Init is the state each of them leaves
CtorInputs ==
    {<<c, form, units, shuf, tc, drop>> :
        c \in {"Compose", "DropoutCompose"}, form \in {"args", "seq"},
        units \in UnitLists, shuf \in BOOLEAN,
        tc \in {"dict_call", "seq_call"}, drop \in DropoutArgs}

\* whether a composer exists (the last constructor call returned)
Alive == ~(op = "new" /\ err # "none")

Init ==
    \E i \in CtorInputs :
        LET r == Construct(i[1], i[2], i[3], i[4], i[5], i[6])
        IN /\ cls = r.cls
           /\ transforms = r.transforms
           /\ transform_order = r.transform_order
           /\ shuffle = r.shuffle
           /\ transform_call = r.transform_call
           /\ n_samples = r.n_samples
           /\ dropout = r.dropout
           /\ op = "new"
           /\ err = r.err
           /\ arg = r.arg
           /\ calls = <<>>
           /\ out = NoData
           /\ rand = <<>>
           /\ sampled = FALSE
           /\ visited = <<>>
           /\ was_shuffled = FALSE

----------------------------------------------------------------------------
(* Setters *)

\* composer.transforms = value
SetTransforms ==
    /\ Alive
    /\ \E value \in UnitLists :
        LET ts == TransformsSetterList(value)
        IN /\ transforms' = ts
           /\ transform_order' = OrderOnSetTransforms(ts, transforms)
           /\ arg' = [NoArg EXCEPT !.k = Len(value)]
    /\ op' = "set_transforms"
    /\ err' = "none"
    /\ calls' = <<>>
    /\ out' = NoData
    /\ rand' = <<>>
    /\ sampled' = FALSE
    /\ visited' = <<>>
    /\ UNCHANGED <<cls, shuffle, transform_call, n_samples, dropout, was_shuffled>>

\* composer.shuffle = value
SetShuffle ==
    /\ Alive
    /\ \E value \in BOOLEAN : shuffle' = value
    /\ arg' = NoArg
    /\ transform_order' = OrderOnSetShuffle(transforms, transform_order)
    /\ op' = "set_shuffle"
    /\ err' = "none"
    /\ calls' = <<>>
    /\ out' = NoData
    /\ rand' = <<>>
    /\ sampled' = FALSE
    /\ visited' = <<>>
    /\ UNCHANGED <<cls, transforms, transform_call, n_samples, dropout, was_shuffled>>

----------------------------------------------------------------------------
(* forward *)

\* variant of ArgsAssert: the assertion is not made
ArgsAssert_off(hasSeq, hasMap) == TRUE

\* assert not (seq_like and map_like)
ArgsAssert(hasSeq, hasMap) == ~(hasSeq /\ hasMap)

\* assert len(self.transforms) == len(self.transform_order)
OrderAssert(ts, order) == Len(ts) = Len(order)

\* data = seq_like if seq_like else map_like
InputData(hasSeq, hasMap, x) ==
    IF hasSeq THEN Batch("seq", <<x>>)
    ELSE IF hasMap THEN Batch("map", <<x>>)
    ELSE Batch("map", <<>>)

\* the calls forward can receive: positional data, keyword data, both or none
ForwardInputs ==
    {<<hasSeq, hasMap, x>> \in BOOLEAN \X BOOLEAN \X (1..MaxIn) :
        (hasSeq \/ hasMap) \/ x = 1}

\* variant of ShuffleEnabled: the order is shuffled whatever the flag says
ShuffleEnabled_always(flag) == TRUE

\* Compose.forward: if self.shuffle
ShuffleEnabled(flag) == flag

\* variant of ComposeOrders: a copy of the order is shuffled and thrown away
ComposeOrders_copy(flag, order) == {order}

\* Compose.forward: the order left in self.transform_order before the loop
ComposeOrders(flag, order) ==
    IF ShuffleEnabled(flag) THEN ShuffleOutcomes(order) ELSE {order}

\* Compose.forward: for idx in self.transform_order:
\*                      data = self.transform_call(data, self.transforms[idx])
RECURSIVE ComposeLoop(_, _, _, _)
ComposeLoop(order, i, data, done) ==
    IF i > Len(order) THEN [err |-> "none", data |-> data, calls |-> done]
    ELSE LET idx == order[i]
         IN IF idx + 1 > Len(transforms)
            THEN [err |-> "IndexError", data |-> NoData, calls |-> done]
            ELSE LET r == TransformCall(data, transforms[idx + 1])
                 IN IF r.err # "none"
                    THEN [err |-> r.err, data |-> NoData, calls |-> done]
                    ELSE ComposeLoop(order, i + 1, r.data, Append(done, idx))

\* variant of DropoutOrders: the order is shuffled in place when the flag is set
DropoutOrders_shuffled(flag, order) ==
    IF flag THEN ShuffleOutcomes(order) ELSE {order}

\* DropoutCompose.forward: the order its loop iterates, self.transform_order
\* as it stands (the shuffle flag is not read)
DropoutOrders(flag, order) == {order}

\* self.prob: the vectors the registered sampler can return
Prob == [1..n_samples -> Draws]

\* DropoutCompose.forward: if rand[idx] > self.dropout[idx]
Exceeds(draw, threshold) == draw > threshold

\* DropoutCompose.forward: for idx in self.transform_order:
\*                             if rand[idx] > self.dropout[idx]: data = ...
RECURSIVE DropoutLoop(_, _, _, _, _)
DropoutLoop(order, i, data, done, r) ==
    IF i > Len(order) THEN [err |-> "none", data |-> data, calls |-> done]
    ELSE LET idx == order[i]
         IN IF idx + 1 > Len(r)
            THEN [err |-> "IndexError", data |-> NoData, calls |-> done]
            ELSE IF ~dropout.set
            THEN [err |-> "AttributeError", data |-> NoData, calls |-> done]
            ELSE IF idx + 1 > Len(dropout.val)
            THEN [err |-> "IndexError", data |-> NoData, calls |-> done]
            ELSE IF ~Exceeds(r[idx + 1], dropout.val[idx + 1])
            THEN DropoutLoop(order, i + 1, data, done, r)
            ELSE IF idx + 1 > Len(transforms)
            THEN [err |-> "IndexError", data |-> NoData, calls |-> done]
            ELSE LET c == TransformCall(data, transforms[idx + 1])
                 IN IF c.err # "none"
                    THEN [err |-> c.err, data |-> NoData, calls |-> done]
                    ELSE DropoutLoop(order, i + 1, c.data, Append(done, idx), r)

\* Compose.forward on the call i = <<positional given, keywords given, value>>
\* when one of its two assertions fails
ComposeFail(i) ==
    /\ Alive
    /\ cls = "Compose"
    /\ ~ArgsAssert(i[1], i[2]) \/ ~OrderAssert(transforms, transform_order)
    /\ arg' = [NoArg EXCEPT !.seq = i[1], !.map = i[2], !.x = i[3]]
    /\ err' = IF ~ArgsAssert(i[1], i[2]) THEN "AssertionError_args"
                                         ELSE "AssertionError_order"
    /\ calls' = <<>>
    /\ out' = NoData
    /\ sampled' = FALSE
    /\ visited' = <<>>
    /\ op' = "forward"
    /\ rand' = <<>>
    /\ UNCHANGED <<cls, transforms, transform_order, shuffle, transform_call,
                   n_samples, dropout, was_shuffled>>

\* Compose.forward on the call i past its assertions, with ord the list
\* shuffle() leaves in self.transform_order (the list itself when shuffle is off)
ComposeRun(i, ord) ==
    /\ Alive
    /\ cls = "Compose"
    /\ ArgsAssert(i[1], i[2])
    /\ OrderAssert(transforms, transform_order)
    /\ ord \in ComposeOrders(shuffle, transform_order)
    /\ LET r == ComposeLoop(ord, 1, InputData(i[1], i[2], i[3]), <<>>)
       IN /\ visited' = ord
          /\ transform_order' = ord
          /\ err' = r.err
          /\ calls' = r.calls
          /\ out' = r.data
    /\ arg' = [NoArg EXCEPT !.seq = i[1], !.map = i[2], !.x = i[3]]
    /\ sampled' = ShuffleEnabled(shuffle)
    /\ was_shuffled' = (was_shuffled \/ ShuffleEnabled(shuffle))
    /\ op' = "forward"
    /\ rand' = <<>>
    /\ UNCHANGED <<cls, transforms, shuffle, transform_call, n_samples, dropout>>

\* Compose.forward on the call i
ComposeCall(i) ==
    \/ ComposeFail(i)
    \/ \E ord \in ComposeOrders(shuffle, transform_order) : ComposeRun(i, ord)

\* DropoutCompose.forward on the call i = <<positional given, keywords given, value>>
DropoutCall(i) ==
    /\ Alive
    /\ cls = "DropoutCompose"
    /\  /\ arg' = [NoArg EXCEPT !.seq = i[1], !.map = i[2], !.x = i[3]]
        /\ IF ~ArgsAssert(i[1], i[2])
           THEN /\ err' = "AssertionError_args"
                /\ calls' = <<>>
                /\ out' = NoData
                /\ rand' = <<>>
                /\ sampled' = FALSE
                /\ visited' = <<>>
                /\ UNCHANGED transform_order
           ELSE IF ~OrderAssert(transforms, transform_order)
           THEN /\ err' = "AssertionError_order"
                /\ calls' = <<>>
                /\ out' = NoData
                /\ rand' = <<>>
                /\ sampled' = FALSE
                /\ visited' = <<>>
                /\ UNCHANGED transform_order
           ELSE \E ord \in DropoutOrders(shuffle, transform_order), rv \in Prob :
                    LET r == DropoutLoop(ord, 1, InputData(i[1], i[2], i[3]), <<>>, rv)
                    IN /\ visited' = ord
                       /\ transform_order' = ord
                       /\ rand' = rv
                       /\ err' = r.err
                       /\ calls' = r.calls
                       /\ out' = r.data
                       /\ sampled' = TRUE
    /\ op' = "forward"
    /\ UNCHANGED <<cls, transforms, shuffle, transform_call, n_samples, dropout,
                   was_shuffled>>

\* composer(*seq_like, **map_like) on a Compose
ComposeForward == \E i \in ForwardInputs : ComposeCall(i)

\* composer(*seq_like, **map_like) on a DropoutCompose
DropoutForward == \E i \in ForwardInputs : DropoutCall(i)

----------------------------------------------------------------------------

Next ==
    \/ SetTransforms
    \/ SetShuffle
    \/ ComposeForward
    \/ DropoutForward

Spec == Init /\ [][Next]_vars

----------------------------------------------------------------------------
(* Properties *)

\* number of transforms the composer holds
N == Len(transforms)

\* s lists every index 0..n-1 exactly once
IsPermutation(s, n) ==
    /\ Len(s) = n
    /\ \A k \in 0..(n - 1) : \E i \in 1..n : s[i] = k

\* s is the list 0, 1, ..., n-1
IsListOrder(s, n) ==
    /\ Len(s) = n
    /\ \A i \in 1..n : s[i] = i - 1

\* the index lists of length n over 0..n-1
IndexLists(n) == [1..n -> 0..(n - 1)]

\* the last call gave both positional and keyword data
BothGiven == arg.seq /\ arg.map

\* the batch the last call handed to forward
GivenData ==
    IF arg.seq THEN Batch("seq", <<arg.x>>)
    ELSE IF arg.map THEN Batch("map", <<arg.x>>)
    ELSE Batch("map", <<>>)

\* the composer's call adapter can unpack the batch of the last call
AdapterFits ==
    \/ GivenData.vals = <<>>
    \/ transform_call = "dict_call" /\ GivenData.form = "map"
    \/ transform_call = "seq_call" /\ GivenData.form = "seq"

\* a call with one kind of data, of the form the composer's adapter unpacks
FittingCall ==
    IF transform_call = "dict_call" THEN <<FALSE, TRUE, 1>> ELSE <<TRUE, FALSE, 1>>

\* the batch after the units at the indices idxs[k..] have been applied in turn
RECURSIVE Chain(_, _, _)
Chain(idxs, k, data) ==
    IF k > Len(idxs) THEN data
    ELSE Chain(idxs, k + 1, ApplyFn(transforms[idxs[k] + 1].fn, data))

\* C1: on a Compose with shuffle off, every forward call whose batch the
\* adapter accepts invokes the transforms in list order 0, 1, ..., n-1, each
\* once, chaining outputs to inputs, and returns the last output.
C1_ListOrder ==
    (op = "forward" /\ cls = "Compose" /\ ~shuffle /\ ~BothGiven /\ AdapterFits)
        => /\ err = "none"
           /\ IsListOrder(calls, N)
           /\ out = Chain(calls, 1, GivenData)
           /\ IsListOrder(visited, N)

\* C1 witness: [A, B] applied to {"x": 1} returns {"x": 4}, on a composer whose
\* order an earlier call had shuffled before shuffle was set back to False.
C1_Witness ==
    /\ op = "forward" /\ cls = "Compose" /\ ~shuffle /\ was_shuffled
    /\ transforms = <<Fn("A"), Fn("B")>>
    /\ arg.map /\ ~arg.seq /\ arg.x = 1
    /\ err = "none"
    /\ calls = <<0, 1>>
    /\ out = Batch("map", <<4>>)

\* the orders the next forward call of a Compose can apply: ComposeRun(i, ord)
\* is enabled for a call i past the assertions exactly when ord is one of them
NextOrders == ComposeOrders(shuffle, transform_order)

\* C2: on a Compose with shuffle on, at every invocation each of the n!
\* orderings of the transforms is a possible application order, and the
\* order applied by a call is always a permutation of 0..n-1.
C2_FreshShuffle ==
    (Alive /\ cls = "Compose" /\ shuffle)
        => /\ \A s \in IndexLists(N) :
                IsPermutation(s, N) => s \in NextOrders
           /\ (op = "forward" /\ ~BothGiven)
                => /\ IsPermutation(visited, N)
                   /\ (err = "none" => calls = visited)

\* C2 witness: three transforms applied in the order 2, 0, 1 by a call made
\* after an earlier shuffled call.
C2_Witness ==
    /\ op = "forward" /\ cls = "Compose" /\ shuffle /\ N = 3
    /\ err = "none" /\ calls = <<2, 0, 1>>
    /\ arg.map /\ arg.x = 1

\* C3: in DropoutCompose.forward a transform is applied exactly when its draw
\* strictly exceeds its threshold, skipped transforms leave the batch as it
\* is, and the call returns the batch so obtained.
C3_DropoutGate ==
    (op = "forward" /\ cls = "DropoutCompose" /\ ~BothGiven /\ AdapterFits
        /\ \A i \in 1..N : transforms[i].tag = "fn")
        => /\ err = "none"
           /\ Len(rand) = N
           /\ \A idx \in 0..(N - 1) :
                /\ dropout.set
                /\ idx + 1 <= Len(dropout.val)
                /\ (\E k \in 1..Len(calls) : calls[k] = idx)
                      <=> rand[idx + 1] > dropout.val[idx + 1]
           /\ out = Chain(calls, 1, GivenData)

\* C4: DropoutCompose built from k units, given one by one or as one sequence,
\* raises TypeError exactly when dropout is a sequence of length other than k.
C4_LengthCheck ==
    (op = "new" /\ cls = "DropoutCompose")
        => /\ err \in {"none", "TypeError"}
           /\ err = "TypeError" <=> (arg.dlen >= 0 /\ arg.dlen # arg.k)
           /\ err = "none" => N = arg.k

\* C5: a forward call given both positional and keyword data raises the
\* assertion before any transform is invoked, before any random value is
\* drawn and without touching the order; a call given only one kind of data
\* never raises it.
C5_BothFailsFast ==
    [][op' = "forward"
        => IF arg'.seq /\ arg'.map
           THEN /\ err' = "AssertionError_args"
                /\ calls' = <<>>
                /\ visited' = <<>>
                /\ ~sampled'
                /\ rand' = <<>>
                /\ out' = NoData
                /\ transform_order' = transform_order
           ELSE err' # "AssertionError_args"]_vars

\* C5 witness: the assertion raised on a shuffling Compose whose order is
\* currently not list order.
C5_Witness ==
    /\ op = "forward" /\ cls = "Compose" /\ shuffle
    /\ BothGiven /\ err = "AssertionError_args"
    /\ N = 3 /\ transform_order = <<1, 2, 0>>

\* C6: after construction, after every assignment of the transform list and
\* after every assignment of the shuffle flag, the order is 0, 1, ..., n-1.
C6_IdentityOnSet ==
    (Alive /\ op \in {"new", "set_transforms", "set_shuffle"})
        => IsListOrder(transform_order, N)

\* C6 witness: shuffle set back to False on a composer of three transforms
\* after shuffled calls.
C6_Witness ==
    /\ op = "set_shuffle" /\ ~shuffle /\ was_shuffled /\ N = 3
    /\ transform_order = <<0, 1, 2>>

\* C7: the order is always a permutation of 0..n-1 for the current number n
\* of transforms, and the order/count assertion of forward never fails.
C7_OrderIsPermutation ==
    Alive => /\ IsPermutation(transform_order, N)
             /\ err # "AssertionError_order"

\* C7 witness: a forward that passed the assertion on a list assigned after
\* shuffled calls, leaving an order other than list order.
C7_Witness ==
    /\ op = "forward" /\ err = "none" /\ was_shuffled /\ shuffle
    /\ N = 3 /\ transform_order = <<2, 1, 0>>

\* the order held after a step is a rearrangement of the one held before
Rearranged ==
    /\ Len(transform_order') = Len(transform_order)
    /\ \A i \in 1..Len(transform_order) :
         Cardinality({j \in 1..Len(transform_order) : transform_order'[j] = transform_order[i]})
           = Cardinality({j \in 1..Len(transform_order) : transform_order[j] = transform_order[i]})

\* C8 as stated: forward leaves the transform list, the shuffle flag and the
\* instance-level order as they were, and the order changes only when the
\* list or the flag is assigned.
C8_ApplyHasNoSideEffect ==
    [][/\ op' = "forward"
            => /\ transforms' = transforms
               /\ shuffle' = shuffle
               /\ transform_order' = transform_order
       /\ transform_order' # transform_order
            => op' \in {"set_transforms", "set_shuffle"}]_vars

\* C8 amended: forward leaves the transform list and the shuffle flag as they
\* were; it leaves the instance-level order as it was on a DropoutCompose, on
\* a Compose with shuffle off and when the positional/keyword assertion
\* fails; on a Compose with shuffle on it rearranges the instance-level order
\* in place.  The order changes only by such a call or by an assignment of
\* the list or the flag.
C8_ApplySideEffect ==
    [][/\ op' = "forward"
            => /\ transforms' = transforms
               /\ shuffle' = shuffle
               /\ IF cls = "Compose" /\ shuffle /\ ~(arg'.seq /\ arg'.map)
                  THEN Rearranged /\ visited' = transform_order'
                  ELSE transform_order' = transform_order
       /\ transform_order' # transform_order
            => \/ op' \in {"set_transforms", "set_shuffle"}
               \/ op' = "forward" /\ cls = "Compose" /\ shuffle]_vars

\* C8 witness: a shuffled forward has returned and the instance-level order
\* it left is not list order.
C8_Witness ==
    /\ op = "forward" /\ cls = "Compose" /\ shuffle /\ err = "none"
    /\ N = 2 /\ transform_order = <<1, 0>> /\ visited = <<1, 0>>

\* C9: a DropoutCompose with shuffle on can traverse its transforms in an
\* order other than list order.
C9_DropoutShuffles ==
    (Alive /\ cls = "DropoutCompose" /\ shuffle /\ N >= 2)
        => ENABLED (DropoutCall(FittingCall)
                      /\ Len(visited') = N /\ ~IsListOrder(visited', N))

\* C10: a DropoutCompose always holds one dropout threshold per current
\* transform, and draws one random value per current transform.
C10_DropoutVectors ==
    (Alive /\ cls = "DropoutCompose")
        => /\ dropout.set
           /\ Len(dropout.val) = N
           /\ n_samples = N
           /\ (op = "forward" /\ sampled) => Len(rand) = N

====
